---------------------------- MODULE Spec2Model ----------------------------
(***************************************************************************)
(* A model of the Telegram task bot: the date/time parser parse_datetime,  *)
(* the SQLite task table with its add/get/delete functions, the Google     *)
(* Calendar helpers and the command handlers that combine them             *)
(* (src/simple_bot.py), and the store functions of the calendar-less       *)
(* variant (src/bot.py).                                                   *)
(*                                                                         *)
(* Text is modelled as a sequence of one-character strings.  The Cyrillic  *)
(* letters of the weekday names are written with one Latin letter each:    *)
(*   п p   н n   о o   е e   д d   л l   ь j   и i   к k   в v             *)
(*   т t   р r   с s   а a   ч c   г g   я y   ц z   у u   б b             *)
(* so that "пн" is <<"p","n">> and "ПН" is <<"P","N">>.                    *)
(***************************************************************************)
EXTENDS Integers, Sequences, FiniteSets, TLC

VARIABLES
    program,    \* which of the two programs runs: simple_bot.py or bot.py
    clock,      \* the wall clock: a naive UTC datetime record
    sysOffset,  \* UTC offset (hours) of the host's local zone, read by datetime.now()
    tasks,      \* the rows of table tasks
    seq,        \* sqlite_sequence of table tasks (AUTOINCREMENT)
    events,     \* the events of the primary Google calendar
    nextEvent,  \* number of events the calendar has created so far
    last,       \* the last store call or command: its arguments and its result
    call,       \* the call under study (parse_datetime, add_task): arguments, outcome
    prev,       \* the parse_datetime call before it, when made with the same tokens
    created,    \* the ids add_task has returned so far, in the order of the calls
    threads     \* the worker threads that run /delete: where each one stands

vars == <<program, clock, sysOffset, tasks, seq, events, nextEvent, last, call, prev,
          created, threads>>

-----------------------------------------------------------------------------
(* Text *)

DigitChars == <<"0", "1", "2", "3", "4", "5", "6", "7", "8", "9">>

IsDigit(c) == \E i \in 1..10 : DigitChars[i] = c

DigitVal(c) == (CHOOSE i \in 1..10 : DigitChars[i] = c) - 1

RECURSIVE Digits(_)
\* str(n) for n >= 0
Digits(n) ==
    IF n < 10 THEN <<DigitChars[n + 1]>>
    ELSE Digits(n \div 10) \o <<DigitChars[(n % 10) + 1]>>

RECURSIVE ZeroPad(_, _)
\* "%0wd" % n
ZeroPad(n, w) ==
    IF w <= 1 THEN Digits(n)
    ELSE IF Len(Digits(n)) >= w THEN Digits(n)
    ELSE <<"0">> \o ZeroPad(n, w - 1)

RECURSIVE DigitsValue(_)
\* the number a sequence of digits denotes (0 for the empty sequence)
DigitsValue(s) ==
    IF s = <<>> THEN 0
    ELSE 10 * DigitsValue(SubSeq(s, 1, Len(s) - 1)) + DigitVal(s[Len(s)])

AllDigits(s) == \A i \in 1..Len(s) : IsDigit(s[i])

Contains(s, c) == \E i \in 1..Len(s) : s[i] = c

\* str.replace(a, b) for single characters
str_replace(s, a, b) == [i \in 1..Len(s) |-> IF s[i] = a THEN b ELSE s[i]]

UpperLetters == <<"P", "N", "O", "E", "D", "L", "J", "I", "K", "V",
                  "T", "R", "S", "A", "C", "G", "Y", "Z", "U", "B">>

LowerLetters == <<"p", "n", "o", "e", "d", "l", "j", "i", "k", "v",
                  "t", "r", "s", "a", "c", "g", "y", "z", "u", "b">>

LowerChar(c) ==
    IF \E i \in 1..Len(UpperLetters) : UpperLetters[i] = c
    THEN LowerLetters[CHOOSE i \in 1..Len(UpperLetters) : UpperLetters[i] = c]
    ELSE c

UpperChar(c) ==
    IF \E i \in 1..Len(LowerLetters) : LowerLetters[i] = c
    THEN UpperLetters[CHOOSE i \in 1..Len(LowerLetters) : LowerLetters[i] = c]
    ELSE c

\* str.lower()
str_lower(s) == [i \in 1..Len(s) |-> LowerChar(s[i])]

\* str.upper()
str_upper(s) == [i \in 1..Len(s) |-> UpperChar(s[i])]

\* str.strip(): leading and trailing blanks removed
str_strip(s) ==
    IF \A i \in 1..Len(s) : s[i] = " " THEN <<>>
    ELSE LET a == CHOOSE i \in 1..Len(s) :
                      s[i] # " " /\ \A j \in 1..(i - 1) : s[j] = " "
             b == CHOOSE i \in 1..Len(s) :
                      s[i] # " " /\ \A j \in (i + 1)..Len(s) : s[j] = " "
         IN  SubSeq(s, a, b)

\* str.split(c): the parts between the occurrences of c
str_split(s, c) ==
    LET cuts == {i \in 1..Len(s) : s[i] = c}
        bnds == {0} \cup cuts \cup {Len(s) + 1}
        nth(k) == CHOOSE b \in bnds : Cardinality({x \in bnds : x < b}) = k
    IN  [k \in 1..(Cardinality(cuts) + 1) |-> SubSeq(s, nth(k - 1) + 1, nth(k) - 1)]

\* int(s): blanks around, an optional sign, digits with single underscores
\* between them
py_int(s) ==
    LET t    == str_strip(s)
        neg  == t # <<>> /\ t[1] = "-"
        body == IF t # <<>> /\ t[1] \in {"+", "-"} THEN Tail(t) ELSE t
        ok   == /\ body # <<>>
                /\ \A i \in 1..Len(body) : IsDigit(body[i]) \/ body[i] = "_"
                /\ IsDigit(body[1]) /\ IsDigit(body[Len(body)])
                /\ \A i \in 1..(Len(body) - 1) : ~(body[i] = "_" /\ body[i + 1] = "_")
        val  == DigitsValue(SelectSeq(body, IsDigit))
    IN  IF ok THEN [ok |-> TRUE, val |-> IF neg THEN 0 - val ELSE val]
        ELSE [ok |-> FALSE, val |-> 0]

\* the byte of a character of an ISO timestamp
CharCode(c) ==
    CASE c = "+" -> 43
      [] c = "-" -> 45
      [] c = "." -> 46
      [] IsDigit(c) -> 48 + DigitVal(c)
      [] c = ":" -> 58
      [] c = "T" -> 84

\* a < b as SQLite compares TEXT values (memcmp, the shorter first on a tie)
TextLess(a, b) ==
    \E i \in 1..(Len(a) + 1) :
        /\ i <= Len(b)
        /\ \A j \in 1..(i - 1) : a[j] = b[j]
        /\ \/ i = Len(a) + 1
           \/ i <= Len(a) /\ CharCode(a[i]) < CharCode(b[i])

-----------------------------------------------------------------------------
(* Calendar arithmetic of module datetime *)

IsLeap(y) == (y % 4 = 0 /\ y % 100 # 0) \/ y % 400 = 0

DaysInMonth(y, m) ==
    CASE m \in {1, 3, 5, 7, 8, 10, 12} -> 31
      [] m \in {4, 6, 9, 11} -> 30
      [] m = 2 -> IF IsLeap(y) THEN 29 ELSE 28

RECURSIVE DaysBeforeMonth(_, _)
DaysBeforeMonth(y, m) ==
    IF m <= 1 THEN 0 ELSE DaysBeforeMonth(y, m - 1) + DaysInMonth(y, m - 1)

DaysBeforeYear(y) ==
    (y - 1) * 365 + ((y - 1) \div 4) - ((y - 1) \div 100) + ((y - 1) \div 400)

\* date.toordinal()
toordinal(y, m, d) == DaysBeforeYear(y) + DaysBeforeMonth(y, m) + d

\* date.weekday(): Monday is 0
weekday(y, m, d) == (toordinal(y, m, d) + 6) % 7

\* datetime(year, month, day) raises ValueError outside these ranges
ValidDate(y, m, d) ==
    /\ y \in 1..9999
    /\ m \in 1..12
    /\ d \in 1..DaysInMonth(y, m)

\* A datetime: naive (aware = FALSE, utcoffset 0) or aware with a fixed
\* offset of whole hours.
datetime(y, mo, d, h, mi, s, us, aw, off) ==
    [year |-> y, month |-> mo, day |-> d, hour |-> h, minute |-> mi,
     second |-> s, microsecond |-> us, aware |-> aw, utcoffset |-> off]

NextDay(dt) ==
    IF dt.day < DaysInMonth(dt.year, dt.month) THEN [dt EXCEPT !.day = @ + 1]
    ELSE IF dt.month < 12 THEN [dt EXCEPT !.day = 1, !.month = @ + 1]
    ELSE [dt EXCEPT !.day = 1, !.month = 1, !.year = @ + 1]

RECURSIVE AddDays(_, _)
\* dt + timedelta(days=n), n >= 0: the wall time moves, the zone stays
AddDays(dt, n) == IF n <= 0 THEN dt ELSE AddDays(NextDay(dt), n - 1)

\* dt + timedelta(hours=0)
AddHours_none(dt, h) == dt

\* dt + timedelta(hours=h), 0 <= h < 24
AddHours(dt, h) ==
    IF dt.hour + h < 24 THEN [dt EXCEPT !.hour = @ + h]
    ELSE NextDay([dt EXCEPT !.hour = @ + h - 24])

\* Seconds of the wall time of dt since 2023-01-01T00:00:00
WallSeconds(dt) ==
    (toordinal(dt.year, dt.month, dt.day) - toordinal(2023, 1, 1)) * 86400
        + dt.hour * 3600 + dt.minute * 60 + dt.second

\* The instant dt denotes, in seconds since 2023-01-01T00:00:00Z
Instant(dt) == WallSeconds(dt) - dt.utcoffset * 3600

\* dt1 denotes an earlier instant than dt2
Before(dt1, dt2) ==
    \/ Instant(dt1) < Instant(dt2)
    \/ Instant(dt1) = Instant(dt2) /\ dt1.microsecond < dt2.microsecond

\* datetime.isoformat(timespec='seconds'): the microseconds are dropped
isoformat_seconds(dt) ==
    ZeroPad(dt.year, 4) \o <<"-">> \o ZeroPad(dt.month, 2) \o <<"-">>
        \o ZeroPad(dt.day, 2) \o <<"T">> \o ZeroPad(dt.hour, 2) \o <<":">>
        \o ZeroPad(dt.minute, 2) \o <<":">> \o ZeroPad(dt.second, 2)
        \o (IF dt.aware
            THEN <<IF dt.utcoffset < 0 THEN "-" ELSE "+">>
                     \o ZeroPad(IF dt.utcoffset < 0 THEN 0 - dt.utcoffset
                                ELSE dt.utcoffset, 2)
                     \o <<":", "0", "0">>
            ELSE <<>>)

\* datetime.isoformat()
isoformat(dt) ==
    ZeroPad(dt.year, 4) \o <<"-">> \o ZeroPad(dt.month, 2) \o <<"-">>
        \o ZeroPad(dt.day, 2) \o <<"T">> \o ZeroPad(dt.hour, 2) \o <<":">>
        \o ZeroPad(dt.minute, 2) \o <<":">> \o ZeroPad(dt.second, 2)
        \o (IF dt.microsecond # 0 THEN <<".">> \o ZeroPad(dt.microsecond, 6)
            ELSE <<>>)
        \o (IF dt.aware
            THEN <<IF dt.utcoffset < 0 THEN "-" ELSE "+">>
                     \o ZeroPad(IF dt.utcoffset < 0 THEN 0 - dt.utcoffset
                                ELSE dt.utcoffset, 2)
                     \o <<":", "0", "0">>
            ELSE <<>>)

\* datetime.fromisoformat() of a text that isoformat() wrote
fromisoformat(s) ==
    LET num(a, b) == DigitsValue(SubSeq(s, a, b))
        frac == Len(s) >= 20 /\ s[20] = "."
        rest == IF frac THEN 27 ELSE 20
        aw   == Len(s) >= rest
    IN  datetime(num(1, 4), num(6, 7), num(9, 10), num(12, 13), num(15, 16),
                 num(18, 19), IF frac THEN num(21, 26) ELSE 0, aw,
                 IF aw THEN (IF s[rest] = "-" THEN 0 - num(rest + 1, rest + 2)
                             ELSE num(rest + 1, rest + 2))
                 ELSE 0)

-----------------------------------------------------------------------------
(* Settings *)

\* TIMEZONE, "Europe/Moscow" by default: UTC+3 the whole year
TIMEZONE == 3

\* datetime.now(tz): the clock in the configured zone
datetime_now_tz == [AddHours(clock, TIMEZONE) EXCEPT !.aware = TRUE, !.utcoffset = TIMEZONE]

\* datetime.now(): the clock as a naive datetime in the host's local zone
datetime_now == AddHours(clock, sysOffset)

\* tz.localize(dt): the naive wall time dt attached to the configured zone
tz_localize(dt) == [dt EXCEPT !.aware = TRUE, !.utcoffset = TIMEZONE]

-----------------------------------------------------------------------------
(* parse_datetime *)

\* The dictionary weekdays of parse_datetime: <<name, number>>
weekdays ==
    { << <<"p", "n">>, 0 >>,
      << <<"p", "o", "n", "e", "d", "e", "l", "j", "n", "i", "k">>, 0 >>,
      << <<"v", "t">>, 1 >>,
      << <<"v", "t", "o", "r", "n", "i", "k">>, 1 >>,
      << <<"s", "r">>, 2 >>,
      << <<"s", "r", "e", "d", "a">>, 2 >>,
      << <<"c", "t">>, 3 >>,
      << <<"c", "e", "t", "v", "e", "r", "g">>, 3 >>,
      << <<"p", "t">>, 4 >>,
      << <<"p", "y", "t", "n", "i", "z", "a">>, 4 >>,
      << <<"s", "b">>, 5 >>,
      << <<"s", "u", "b", "b", "o", "t", "a">>, 5 >>,
      << <<"v", "s">>, 6 >>,
      << <<"v", "o", "s", "k", "r", "e", "s", "e", "n", "j", "e">>, 6 >> }

\* What parse_datetime does: it returns a datetime or raises ValueError
Returned(dt) == [ok |-> TRUE, dt |-> dt]

ValueError == [ok |-> FALSE, dt |-> datetime(1, 1, 1, 0, 0, 0, 0, FALSE, 0)]

\* datetime.strptime(s, "%H:%M").time(): one or two digits that make an hour
\* 0..23, a colon, one or two digits that make a minute 0..59, nothing else
strptime_HM(s) ==
    LET parts == str_split(s, ":")
        field(x, max) == /\ Len(x) \in 1..2
                         /\ AllDigits(x)
                         /\ DigitsValue(x) <= max
    IN  IF Len(parts) = 2 /\ field(parts[1], 23) /\ field(parts[2], 59)
        THEN [ok |-> TRUE, hour |-> DigitsValue(parts[1]),
              minute |-> DigitsValue(parts[2])]
        ELSE [ok |-> FALSE, hour |-> 0, minute |-> 0]

\* days_ahead with the test "< 0": the named weekday may be today
days_ahead_today(target_weekday, now_weekday) ==
    IF target_weekday - now_weekday < 0
    THEN target_weekday - now_weekday + 7
    ELSE target_weekday - now_weekday

\* days_ahead of the weekday branch
days_ahead(target_weekday, now_weekday) ==
    IF target_weekday - now_weekday <= 0
    THEN target_weekday - now_weekday + 7
    ELSE target_weekday - now_weekday

\* infer_year comparing the month alone
infer_year_month_only(day, month, now) ==
    IF month < now.month THEN now.year + 1 ELSE now.year

\* the year of the D.M branch: this year, or the next when the date has passed
infer_year(day, month, now) ==
    IF month < now.month \/ (month = now.month /\ day < now.day)
    THEN now.year + 1
    ELSE now.year

\* parse_datetime(date_str, time_str); it reads the clock (now)
parse_datetime(date_str, time_str) ==
    LET now      == datetime_now_tz
        t1       == str_replace(time_str, ".", ":")
        t2       == IF Contains(t1, ":") THEN t1 ELSE t1 \o <<":", "0", "0">>
        time_obj == strptime_HM(t2)
        d        == str_strip(str_lower(date_str))
        combine(y, mo, dd) ==
            tz_localize(datetime(y, mo, dd, time_obj.hour, time_obj.minute,
                                 0, 0, FALSE, 0))
    IN  IF ~time_obj.ok THEN ValueError
        ELSE IF \E w \in weekdays : w[1] = d
        THEN LET target_weekday == (CHOOSE w \in weekdays : w[1] = d)[2]
                 ahead  == days_ahead(target_weekday,
                                      weekday(now.year, now.month, now.day))
                 target == AddDays(now, ahead)
             IN  Returned(combine(target.year, target.month, target.day))
        ELSE IF Contains(d, ".")
        THEN LET parts == str_split(d, ".")
                 day   == py_int(parts[1])
                 month == py_int(parts[2])
                 year  == infer_year(day.val, month.val, now)
             IN  IF Len(parts) = 2 /\ day.ok /\ month.ok
                    /\ ValidDate(year, month.val, day.val)
                 THEN Returned(combine(year, month.val, day.val))
                 ELSE ValueError
        ELSE ValueError

-----------------------------------------------------------------------------
(* The parser on its own: tokens drawn at the start, parsed, and parsed again
   after the clock has moved *)

Utc(y, mo, d, h, mi, s) == datetime(y, mo, d, h, mi, s, 0, FALSE, 0)

\* Clock readings (UTC); the configured zone is three hours ahead
RefClocks ==
    { Utc(2023, 3, 1, 7, 0, 0),       \* Wed 2023-03-01 10:00
      Utc(2023, 12, 31, 20, 59, 59),  \* Sun 2023-12-31 23:59:59
      Utc(2023, 12, 31, 21, 0, 0),    \* Mon 2024-01-01 00:00
      Utc(2024, 1, 10, 7, 0, 0),      \* Wed 2024-01-10 10:00
      Utc(2024, 1, 10, 20, 30, 0),    \* Wed 2024-01-10 23:30
      Utc(2024, 1, 10, 21, 0, 0),     \* Thu 2024-01-11 00:00
      Utc(2024, 2, 29, 9, 0, 0),      \* Thu 2024-02-29 12:00
      Utc(2024, 3, 1, 7, 0, 0),       \* Fri 2024-03-01 10:00
      Utc(2024, 12, 15, 7, 0, 0) }    \* Sun 2024-12-15 10:00

DayNums == {0, 1, 9, 10, 15, 29, 31, 32}

MonthNums == {0, 1, 2, 3, 12, 13}

\* Weekday names as the user may type them
WeekdayTokens ==
    {w[1] : w \in weekdays}
        \cup {str_upper(w[1]) : w \in {v \in weekdays : Len(v[1]) = 2}}
        \cup { <<"P", "n">>, <<"S", "r", "e", "d", "A">> }

\* D.M tokens, plain and zero-padded
DayMonthTokens ==
    {Digits(d) \o <<".">> \o Digits(m) : d \in DayNums, m \in MonthNums}
        \cup {ZeroPad(d, 2) \o <<".">> \o ZeroPad(m, 2) : d \in {9}, m \in {1, 12}}

\* Other things a user may type as the date
OtherDateTokens ==
    { <<>>,
      <<"9">>,
      <<"p", "n", "d">>,
      <<"9", "-", "1", "2">>,
      <<"9", ".">>,
      <<".", "1", "2">>,
      <<"9", ".", "1", "2", ".", "2", "0", "2", "4">>,
      <<"1", "0", ".", "1", ".", "2", "4">>,
      <<"0", "0", "9", ".", "1", "2">>,
      <<"+", "9", ".", "1", "2">>,
      <<"-", "9", ".", "1", "2">>,
      <<"1", "_", "0", ".", "1">>,
      <<"9", ".", "p", "n">> }

DateTokens == WeekdayTokens \cup DayMonthTokens \cup OtherDateTokens

TimeTokens ==
    { <<"9", ".", "0", "0">>,
      <<"1", "4", ".", "3", "0">>,
      <<"2", "3", ".", "5", "9">>,
      <<"1", "4", ":", "3", "0">>,
      <<"9">>,
      <<"9", ".", "5">>,
      <<"2", "5", ".", "6", "1">>,
      <<"1", "4", ".", "6", "0">>,
      <<"1", "4", ".", "3", "0", ".", "0", "0">>,
      <<"9", ".">>,
      <<>> }

NoCall ==
    [made |-> FALSE, date |-> <<>>, time |-> <<>>,
     now |-> datetime(1, 1, 1, 0, 0, 0, 0, FALSE, 0), out |-> ValueError]

\* Python's None, as a value of a text column or variable
None == <<"None">>

\* no command is being handled.  Of a command: mirror is how the calendar
\* call went, event the event id it was about, db how the database call
\* went, conn the state of the connection the store call opened
NoOp ==
    [op |-> "none", user |-> 0, id |-> 0, ret |-> "None", rows |-> <<>>,
     removed |-> {}, mirror |-> "none", event |-> None, db |-> "none",
     conn |-> "none"]

\* a worker thread that handles no /delete
NoThread ==
    [pc |-> "idle", task_id |-> 0, user_id |-> 0, seen |-> FALSE,
     google_event_id |-> None, asked |-> FALSE]

Threads == {1, 2}

InitResolve ==
    /\ program = "simple_bot.py"
    /\ clock \in RefClocks
    /\ sysOffset = TIMEZONE
    /\ tasks = {}
    /\ seq = 0
    /\ events = {}
    /\ nextEvent = 0
    /\ last = NoOp
    /\ \E d \in DateTokens, t \in TimeTokens :
           call = [NoCall EXCEPT !.date = d, !.time = t]
    /\ prev = NoCall
    /\ created = <<>>
    /\ threads = [t \in Threads |-> NoThread]

\* the caller's parse_datetime(date_str, time_str)
Resolve ==
    /\ ~call.made
    /\ call' = [call EXCEPT !.made = TRUE, !.now = datetime_now_tz,
                            !.out = parse_datetime(call.date, call.time)]
    /\ UNCHANGED <<created, threads, program, clock, sysOffset, tasks, seq, events, nextEvent, last, prev>>

\* the same tokens sent once more
ResolveAgain ==
    /\ call.made
    /\ ~prev.made
    /\ prev' = call
    /\ call' = [call EXCEPT !.now = datetime_now_tz,
                            !.out = parse_datetime(call.date, call.time)]
    /\ UNCHANGED <<created, threads, program, clock, sysOffset, tasks, seq, events, nextEvent, last>>

\* time passes between the two calls
PassTime ==
    /\ call.made
    /\ ~prev.made
    /\ \E c \in RefClocks :
           /\ Before(clock, c)
           /\ clock' = c
    /\ UNCHANGED <<created, threads, program, sysOffset, tasks, seq, events, nextEvent, last, call, prev>>

NextResolve == Resolve \/ ResolveAgain \/ PassTime

SpecResolve == InitResolve /\ [][NextResolve]_vars

-----------------------------------------------------------------------------
(* The task table and the Google calendar *)

\* the id the calendar gives its n-th event
EventId(n) == <<"e", "v">> \o Digits(n)

\* WHERE datetime > ? alone
sql_select_upcoming_any_owner(user_id, now_text) ==
    {r \in tasks : TextLess(now_text, r.datetime)}

\* WHERE user_id=? AND datetime > ?
sql_select_upcoming(user_id, now_text) ==
    {r \in tasks : r.user_id = user_id /\ TextLess(now_text, r.datetime)}

\* WHERE id=? AND user_id=?
sql_select_by_id(task_id, user_id) ==
    {r \in tasks : r.id = task_id /\ r.user_id = user_id}

\* DELETE ... WHERE id=? alone: the rows that stay
sql_delete_any_owner(task_id, user_id) ==
    {r \in tasks : r.id # task_id}

\* DELETE FROM tasks WHERE id=? AND user_id=?: the rows that stay
sql_delete(task_id, user_id) ==
    {r \in tasks : ~(r.id = task_id /\ r.user_id = user_id)}

\* INSERT into a table whose id is a plain INTEGER PRIMARY KEY: the id after
\* the largest one in the table
sql_insert_rowid(user_id, description, text, google_event_id) ==
    LET ids == {r.id : r \in tasks}
        top == IF ids = {} THEN 0 ELSE CHOOSE i \in ids : \A j \in ids : j <= i
    IN  tasks \cup {[id |-> top + 1, user_id |-> user_id, description |-> description,
                     datetime |-> text, google_event_id |-> google_event_id]}

\* INSERT INTO tasks ...: AUTOINCREMENT gives the row the id after the
\* largest one ever given
sql_insert(user_id, description, text, google_event_id) ==
    tasks \cup {[id |-> seq + 1, user_id |-> user_id, description |-> description,
                 datetime |-> text, google_event_id |-> google_event_id]}

\* cursor.lastrowid after the INSERT that made the table new_tasks
lastrowid(new_tasks) == (CHOOSE r \in new_tasks \ tasks : TRUE).id

\* the connection of a store call when the call is over: closed by
\* conn.close(), or, when the database raised, never opened (connect raised)
\* or left open (execute or commit raised and conn.close() was skipped)
Connections(db) == IF db = "ok" THEN {"closed"} ELSE {"none", "open"}

\* ORDER BY datetime: the sequences that list the rows of S in ascending
\* text order (rows with the same text in any order)
OrderBy(S) ==
    {q \in [1..Cardinality(S) -> S] :
        /\ \A i, j \in 1..Cardinality(S) : i # j => q[i] # q[j]
        /\ \A i, j \in 1..Cardinality(S) :
               i < j => ~TextLess(q[j].datetime, q[i].datetime)}

\* create_google_event that lets the API's exception out
create_google_event_raising(api) ==
    IF api = "ok" THEN [ret |-> EventId(nextEvent + 1), raised |-> FALSE]
    ELSE [ret |-> None, raised |-> TRUE]

\* create_google_event: the new event's id, or None when there is no service
\* or the API raises (the exception is caught and logged)
create_google_event(api) ==
    IF api = "ok" THEN [ret |-> EventId(nextEvent + 1), raised |-> FALSE]
    ELSE [ret |-> None, raised |-> FALSE]

\* delete_google_event that lets the API's exception out
delete_google_event_raising(api, event_id) ==
    IF api = "ok" /\ event_id # None /\ \E e \in events : e.id = event_id
    THEN [ret |-> "True", raised |-> FALSE]
    ELSE [ret |-> "False", raised |-> TRUE]

\* delete_google_event: True when the API deleted the event, False when there
\* is no service or the API raises (there is no such event, or the call fails)
delete_google_event(api, event_id) ==
    IF api = "ok" /\ event_id # None /\ \E e \in events : e.id = event_id
    THEN [ret |-> "True", raised |-> FALSE]
    ELSE [ret |-> "False", raised |-> FALSE]

-----------------------------------------------------------------------------
(* The bot: commands and store calls.  Commands are handled one at a time:
   a call is made when no result is pending, and Return hands the result
   back before the next one. *)

MaxTasks == 2

Users == {1, 2}

Descriptions == {"a"}

\* what the users type as date and time in /add
AddDates == { <<"1", "0", ".", "1">> }

AddTimes == { <<"1", "0", ".", "0", "1">>, <<"1", "0", ".", "0", "2">> }

Tick(h, mi, s, us) == datetime(2024, 1, 10, h, mi, s, us, FALSE, 0)

\* Clock readings (UTC) of Wednesday 2024-01-10, 10:00 to 10:03 in the
\* configured zone
BotClocks ==
    { Tick(7, 0, 0, 0), Tick(7, 0, 59, 0), Tick(7, 1, 0, 0), Tick(7, 1, 0, 500000),
      Tick(7, 1, 1, 0), Tick(7, 3, 0, 0) }

\* the host's local zone: UTC, or the configured zone
SysOffsets == {0, TIMEZONE}

\* the two programs of the repository
Programs == {"simple_bot.py", "bot.py"}

Outcomes == {"ok", "error"}

Init ==
    /\ program \in Programs
    /\ clock = Tick(7, 0, 0, 0)
    /\ sysOffset \in SysOffsets
    /\ tasks = {}
    /\ seq = 0
    /\ events = {}
    /\ nextEvent = 0
    /\ last = NoOp
    /\ call = NoCall
    /\ prev = NoCall
    /\ created = <<>>
    /\ threads = [t \in Threads |-> NoThread]

Idle == last.op = "none"

Outcome(op, user, id, ret) ==
    [NoOp EXCEPT !.op = op, !.user = user, !.id = id, !.ret = ret]

\* add_command of simple_bot.py, after the arguments are split and parsed:
\* the calendar event, then the row
add_parsed(user, description, parsed_datetime, has_credentials, api, db) ==
    LET event  == IF has_credentials THEN create_google_event(api)
                  ELSE [ret |-> None, raised |-> FALSE]
        made   == has_credentials /\ api = "ok"
        end_time == AddHours(parsed_datetime, 1)
        mirror == IF ~has_credentials THEN "none"
                  ELSE IF api = "ok" THEN "ok" ELSE "failed"
    IN  /\ IF made
           THEN /\ events' = events \cup
                       {[id |-> EventId(nextEvent + 1), summary |-> description,
                         start |-> isoformat(parsed_datetime),
                         end |-> isoformat(end_time)]}
                /\ nextEvent' = nextEvent + 1
           ELSE UNCHANGED <<events, nextEvent>>
        /\ IF event.raised
           THEN /\ last' = [Outcome("add_command", user, 0, "error")
                               EXCEPT !.mirror = mirror, !.event = event.ret,
                                      !.db = db]
                /\ UNCHANGED <<tasks, seq, created>>
           ELSE IF db = "error"
           THEN /\ \E conn \in Connections(db) :
                       last' = [Outcome("add_command", user, 0, "error")
                                   EXCEPT !.mirror = mirror, !.event = event.ret,
                                          !.db = db, !.conn = conn]
                /\ UNCHANGED <<tasks, seq, created>>
           ELSE LET new_tasks == sql_insert(user, description,
                                            isoformat(parsed_datetime), event.ret)
                    task_id   == lastrowid(new_tasks)
                IN  /\ tasks' = new_tasks
                    /\ seq' = seq + 1
                    /\ created' = Append(created, task_id)
                    /\ last' = [Outcome("add_command", user, task_id, "ok")
                                   EXCEPT !.mirror = mirror, !.event = event.ret,
                                          !.db = db, !.conn = "closed"]

\* add_command of simple_bot.py: /add description date time
add_command ==
    /\ program = "simple_bot.py"
    /\ Idle
    /\ seq < MaxTasks
    /\ nextEvent < MaxTasks
    /\ \E date_str \in AddDates, time_str \in AddTimes :
           LET parsed == parse_datetime(date_str, time_str)
           IN  \E user \in Users, description \in Descriptions,
                  has_credentials \in BOOLEAN, db \in Outcomes :
                   \E api \in IF has_credentials THEN Outcomes ELSE {"ok"} :
                       IF ~parsed.ok
                       THEN /\ last' = Outcome("add_command", user, 0, "ValueError")
                            /\ UNCHANGED <<tasks, seq, events, nextEvent, created>>
                       ELSE add_parsed(user, description, parsed.dt,
                                       has_credentials, api, db)
    /\ UNCHANGED <<threads, program, clock, sysOffset, call, prev>>

\* get_tasks of simple_bot.py
get_tasks(user_id, db) ==
    /\ program = "simple_bot.py"
    /\ Idle
    /\ IF db = "error"
       THEN \E conn \in Connections(db) :
                last' = [Outcome("get_tasks", user_id, 0, "raised")
                            EXCEPT !.db = db, !.conn = conn]
       ELSE \E q \in OrderBy(sql_select_upcoming(user_id, isoformat(datetime_now))) :
                last' = [Outcome("get_tasks", user_id, 0, "rows")
                            EXCEPT !.rows = q, !.db = db, !.conn = "closed"]
    /\ UNCHANGED <<created, threads, program, clock, sysOffset, tasks, seq, events, nextEvent, call, prev>>

\* get_task_by_id of simple_bot.py
get_task_by_id(task_id, user_id, db) ==
    /\ program = "simple_bot.py"
    /\ Idle
    /\ IF db = "error"
       THEN \E conn \in Connections(db) :
                last' = [Outcome("get_task_by_id", user_id, task_id, "raised")
                            EXCEPT !.db = db, !.conn = conn]
       ELSE LET found == sql_select_by_id(task_id, user_id)
            IN  last' = [Outcome("get_task_by_id", user_id, task_id,
                                 IF found = {} THEN "None" ELSE "row")
                            EXCEPT !.rows = IF found = {} THEN <<>>
                                            ELSE <<CHOOSE r \in found : TRUE>>,
                                   !.db = db, !.conn = "closed"]
    /\ UNCHANGED <<created, threads, program, clock, sysOffset, tasks, seq, events, nextEvent, call, prev>>

\* delete_task of simple_bot.py
delete_task(task_id, user_id, db) ==
    LET result == sql_select_by_id(task_id, user_id)
        google_event_id == IF result = {} THEN None
                           ELSE (CHOOSE r \in result : TRUE).google_event_id
        called == google_event_id # None
    IN  /\ program = "simple_bot.py"
        /\ Idle
        /\ IF db = "error"
           THEN /\ \E conn \in Connections(db) :
                       last' = [Outcome("delete_task", user_id, task_id, "raised")
                                   EXCEPT !.db = db, !.conn = conn]
                /\ UNCHANGED <<tasks, events>>
           ELSE \E api \in IF called THEN Outcomes ELSE {"ok"} :
                    LET gone == IF called
                                THEN delete_google_event(api, google_event_id)
                                ELSE [ret |-> "False", raised |-> FALSE]
                    IN  /\ tasks' = sql_delete(task_id, user_id)
                        /\ events' = IF called /\ gone.ret = "True"
                                     THEN {e \in events : e.id # google_event_id}
                                     ELSE events
                        /\ last' =
                               [Outcome("delete_task", user_id, task_id,
                                        IF gone.raised THEN "raised" ELSE "True")
                                   EXCEPT !.removed = tasks \ sql_delete(task_id, user_id),
                                          !.mirror = IF ~called THEN "none"
                                                     ELSE IF gone.ret = "True" THEN "ok"
                                                     ELSE "failed",
                                          !.event = google_event_id,
                                          !.db = db, !.conn = "closed"]
        /\ UNCHANGED <<created, threads, program, clock, sysOffset, seq, nextEvent, call, prev>>

\* add_command of bot.py: parse_datetime, then add_task, which returns None
\* when the database raises
bot_add_command ==
    /\ program = "bot.py"
    /\ Idle
    /\ seq < MaxTasks
    /\ \E date_str \in AddDates, time_str \in AddTimes :
           LET parsed == parse_datetime(date_str, time_str)
           IN  \E user \in Users, description \in Descriptions, db \in Outcomes :
                   IF ~parsed.ok
                   THEN /\ last' = Outcome("bot_add_command", user, 0, "ValueError")
                        /\ UNCHANGED <<tasks, seq, created>>
                   ELSE IF db = "error"
                   THEN /\ \E conn \in Connections(db) :
                               last' = [Outcome("bot_add_command", user, 0, "None")
                                           EXCEPT !.db = db, !.conn = conn]
                        /\ UNCHANGED <<tasks, seq, created>>
                   ELSE LET new_tasks == sql_insert(user, description,
                                                    isoformat(parsed.dt), None)
                            task_id   == lastrowid(new_tasks)
                        IN  /\ tasks' = new_tasks
                            /\ seq' = seq + 1
                            /\ created' = Append(created, task_id)
                            /\ last' = [Outcome("bot_add_command", user, task_id, "ok")
                                           EXCEPT !.db = db, !.conn = "closed"]
    /\ UNCHANGED <<threads, program, clock, sysOffset, events, nextEvent, call, prev>>

\* get_tasks of bot.py: [] when the database raises
bot_get_tasks(user_id, db) ==
    /\ program = "bot.py"
    /\ Idle
    /\ IF db = "error"
       THEN \E conn \in Connections(db) :
                last' = [Outcome("bot_get_tasks", user_id, 0, "rows")
                            EXCEPT !.db = db, !.conn = conn]
       ELSE \E q \in OrderBy(sql_select_upcoming(user_id, isoformat(datetime_now))) :
                last' = [Outcome("bot_get_tasks", user_id, 0, "rows")
                            EXCEPT !.rows = q, !.db = db, !.conn = "closed"]
    /\ UNCHANGED <<created, threads, program, clock, sysOffset, tasks, seq, events, nextEvent, call, prev>>

\* delete_task of bot.py: False when the database raises
bot_delete_task(task_id, user_id, db) ==
    /\ program = "bot.py"
    /\ Idle
    /\ IF db = "error"
       THEN /\ \E conn \in Connections(db) :
                   last' = [Outcome("bot_delete_task", user_id, task_id, "False")
                               EXCEPT !.db = db, !.conn = conn]
            /\ UNCHANGED tasks
       ELSE /\ tasks' = sql_delete(task_id, user_id)
            /\ last' = [Outcome("bot_delete_task", user_id, task_id, "True")
                           EXCEPT !.removed = tasks \ sql_delete(task_id, user_id),
                                  !.db = db, !.conn = "closed"]
    /\ UNCHANGED <<created, threads, program, clock, sysOffset, seq, events, nextEvent, call, prev>>

\* the handler replies and returns
Return ==
    /\ ~Idle
    /\ last' = NoOp
    /\ UNCHANGED <<created, threads, program, clock, sysOffset, tasks, seq, events, nextEvent, call, prev>>

\* time passes between two commands
AdvanceClock ==
    /\ Idle
    /\ \E c \in BotClocks :
           /\ Before(clock, c)
           /\ clock' = c
    /\ UNCHANGED <<created, threads, program, sysOffset, tasks, seq, events, nextEvent, last, call, prev>>

Next ==
    \/ add_command
    \/ \E u \in Users, db \in Outcomes : get_tasks(u, db)
    \/ \E i \in 1..(seq + 1), u \in Users, db \in Outcomes : get_task_by_id(i, u, db)
    \/ \E i \in 1..(seq + 1), u \in Users, db \in Outcomes : delete_task(i, u, db)
    \/ bot_add_command
    \/ \E u \in Users, db \in Outcomes : bot_get_tasks(u, db)
    \/ \E i \in 1..(seq + 1), u \in Users, db \in Outcomes : bot_delete_task(i, u, db)
    \/ Return

\* the bot at one reading of the clock
Spec == Init /\ [][Next]_vars

\* what add_task is given: owners, descriptions, and due times with and
\* without microseconds in zones west of, at and east of UTC
StoreDescriptions == {"", "a", "Ab c"}

StoreOffsets == {-5, 0, TIMEZONE}

StoreMicroseconds == {0, 1, 999999}

StoreDueAts ==
    { datetime(w[1], w[2], w[3], w[4], w[5], w[6], us, TRUE, off) :
          w \in { <<2024, 1, 10, 10, 1, 0>>, <<2024, 2, 29, 0, 0, 0>>,
                  <<2024, 12, 31, 23, 59, 59>>, <<2023, 1, 1, 9, 5, 7>> },
          us \in StoreMicroseconds, off \in StoreOffsets }

InitStore ==
    /\ program \in Programs
    /\ clock = Tick(7, 0, 0, 0)
    /\ sysOffset \in SysOffsets
    /\ tasks = {}
    /\ seq = 0
    /\ events = {}
    /\ nextEvent = 0
    /\ last = NoOp
    /\ \E user \in Users, description \in StoreDescriptions, due_at \in StoreDueAts :
           call = [made |-> FALSE, user |-> user, description |-> description,
                   due_at |-> due_at, id |-> 0]
    /\ prev = NoCall
    /\ created = <<>>
    /\ threads = [t \in Threads |-> NoThread]

\* add_task, given the text of the due time as its callers make it
\* (due_at.isoformat()); in bot.py it returns None when the database raises
add_task(db) ==
    /\ Idle
    /\ ~call.made
    /\ IF db = "error"
       THEN /\ \E conn \in Connections(db) :
                   last' = [Outcome("add_task", call.user, 0,
                                    IF program = "bot.py" THEN "None" ELSE "raised")
                               EXCEPT !.db = db, !.conn = conn]
            /\ UNCHANGED <<tasks, seq, created, call>>
       ELSE LET new_tasks == sql_insert(call.user, call.description,
                                        isoformat(call.due_at), None)
                task_id   == lastrowid(new_tasks)
            IN  /\ tasks' = new_tasks
                /\ seq' = seq + 1
                /\ created' = Append(created, task_id)
                /\ call' = [call EXCEPT !.made = TRUE, !.id = task_id]
                /\ last' = [Outcome("add_task", call.user, task_id, "ok")
                               EXCEPT !.db = db, !.conn = "closed"]
    /\ UNCHANGED <<threads, program, clock, sysOffset, events, nextEvent, prev>>

NextStore ==
    \/ \E db \in Outcomes : add_task(db)
    \/ \E u \in Users, db \in Outcomes : get_tasks(u, db)
    \/ \E i \in 1..(seq + 1), u \in Users, db \in Outcomes : get_task_by_id(i, u, db)
    \/ \E u \in Users, db \in Outcomes : bot_get_tasks(u, db)
    \/ Return

\* one task is stored and read back
SpecStore == InitStore /\ [][NextStore]_vars

\* the bot while time passes
SpecTime == Init /\ [][Next \/ AdvanceClock]_vars

-----------------------------------------------------------------------------
(* /delete on the worker threads: TeleBot runs the handlers of the updates
   it is given on its worker threads, so two /delete commands can be in
   progress at once.  Each database statement is a step; every call has its
   own connection, and nothing holds the table between the SELECT and the
   DELETE of delete_task. *)

AtPc(t, pc) == threads[t].pc = pc

Goto(t, pc) == [threads EXCEPT ![t].pc = pc]

\* delete_command: the id is parsed from the message
delete_command(t, task_id, user_id) ==
    /\ AtPc(t, "idle")
    /\ threads' = [threads EXCEPT ![t] = [NoThread EXCEPT !.pc = "check",
                                              !.task_id = task_id,
                                              !.user_id = user_id]]
    /\ UNCHANGED <<program, clock, sysOffset, tasks, seq, events, nextEvent, last,
                   call, prev, created>>

\* delete_command: get_task_by_id, and the reply when there is no such task
delete_check(t) ==
    /\ AtPc(t, "check")
    /\ threads' = IF sql_select_by_id(threads[t].task_id, threads[t].user_id) = {}
                  THEN [threads EXCEPT ![t] = NoThread]
                  ELSE Goto(t, "select")
    /\ UNCHANGED <<program, clock, sysOffset, tasks, seq, events, nextEvent, last,
                   call, prev, created>>

\* delete_task: SELECT google_event_id ... and fetchone()
delete_select(t) ==
    LET result == sql_select_by_id(threads[t].task_id, threads[t].user_id)
    IN  /\ AtPc(t, "select")
        /\ threads' = [threads EXCEPT
                           ![t].pc = "delete",
                           ![t].seen = result # {},
                           ![t].google_event_id =
                               IF result = {} THEN None
                               ELSE (CHOOSE r \in result : TRUE).google_event_id]
        /\ UNCHANGED <<program, clock, sysOffset, tasks, seq, events, nextEvent,
                       last, call, prev, created>>

\* delete_task: DELETE ..., commit and close
delete_delete(t) ==
    /\ AtPc(t, "delete")
    /\ tasks' = sql_delete(threads[t].task_id, threads[t].user_id)
    /\ threads' = Goto(t, "mirror")
    /\ UNCHANGED <<program, clock, sysOffset, seq, events, nextEvent, last, call,
                   prev, created>>

\* delete_task: delete_google_event when the SELECT gave an id
delete_mirror(t) ==
    LET google_event_id == threads[t].google_event_id
    IN  /\ AtPc(t, "mirror")
        /\ IF google_event_id # None
           THEN \E api \in Outcomes :
                    /\ events' = IF delete_google_event(api, google_event_id).ret = "True"
                                 THEN {e \in events : e.id # google_event_id}
                                 ELSE events
                    /\ threads' = [threads EXCEPT ![t].pc = "reply",
                                                  ![t].asked = TRUE]
           ELSE /\ threads' = Goto(t, "reply")
                /\ UNCHANGED events
        /\ UNCHANGED <<program, clock, sysOffset, tasks, seq, nextEvent, last, call,
                       prev, created>>

\* delete_command: the reply; the handler returns
delete_reply(t) ==
    /\ AtPc(t, "reply")
    /\ threads' = [threads EXCEPT ![t] = NoThread]
    /\ UNCHANGED <<program, clock, sysOffset, tasks, seq, events, nextEvent, last,
                   call, prev, created>>

InitThreads ==
    /\ Init
    /\ program = "simple_bot.py"

NextThreads ==
    \/ add_command
    \/ Return
    \/ \E t \in Threads, i \in 1..(seq + 1), u \in Users : delete_command(t, i, u)
    \/ \E t \in Threads : delete_check(t)
    \/ \E t \in Threads : delete_select(t)
    \/ \E t \in Threads : delete_delete(t)
    \/ \E t \in Threads : delete_mirror(t)
    \/ \E t \in Threads : delete_reply(t)

\* tasks are added, and deleted by two threads at once
SpecThreads == InitThreads /\ [][NextThreads]_vars

-----------------------------------------------------------------------------
(* The grammars of the tokens, as the specification words them *)

\* Monday = 0 .. Sunday = 6: the abbreviation and the full name of each day
WeekdayNames ==
    << {<<"p", "n">>, <<"p", "o", "n", "e", "d", "e", "l", "j", "n", "i", "k">>},
       {<<"v", "t">>, <<"v", "t", "o", "r", "n", "i", "k">>},
       {<<"s", "r">>, <<"s", "r", "e", "d", "a">>},
       {<<"c", "t">>, <<"c", "e", "t", "v", "e", "r", "g">>},
       {<<"p", "t">>, <<"p", "y", "t", "n", "i", "z", "a">>},
       {<<"s", "b">>, <<"s", "u", "b", "b", "o", "t", "a">>},
       {<<"v", "s">>, <<"v", "o", "s", "k", "r", "e", "s", "e", "n", "j", "e">>} >>

IsWeekdayToken(tok) == \E n \in 0..6 : str_lower(tok) \in WeekdayNames[n + 1]

NamedWeekday(tok) == CHOOSE n \in 0..6 : str_lower(tok) \in WeekdayNames[n + 1]

\* D.M: one or two digits, a dot, one or two digits
IsDayMonthToken(tok) ==
    \E i \in 2..3 :
        /\ i < Len(tok) /\ Len(tok) <= i + 2
        /\ tok[i] = "."
        /\ AllDigits(SubSeq(tok, 1, i - 1))
        /\ AllDigits(SubSeq(tok, i + 1, Len(tok)))

DotAt(tok) == CHOOSE i \in 1..Len(tok) : tok[i] = "."

TokenDay(tok) == DigitsValue(SubSeq(tok, 1, DotAt(tok) - 1))

TokenMonth(tok) == DigitsValue(SubSeq(tok, DotAt(tok) + 1, Len(tok)))

\* the year the specification infers for day d of month m at reference ref
SpecYear(d, m, ref) ==
    IF m > ref.month \/ (m = ref.month /\ d >= ref.day) THEN ref.year
    ELSE ref.year + 1

\* A time of the 24-hour clock: an hour 0..23 alone or followed by "." or ":"
\* and a minute 0..59
IsClockToken(tok) ==
    LET seps == {i \in 1..Len(tok) : tok[i] \in {".", ":"}}
        num(x, max) == Len(x) \in 1..2 /\ AllDigits(x) /\ DigitsValue(x) <= max
    IN  \/ seps = {} /\ num(tok, 23)
        \/ \E i \in seps :
               /\ seps = {i}
               /\ num(SubSeq(tok, 1, i - 1), 23)
               /\ num(SubSeq(tok, i + 1, Len(tok)), 59)

\* days from the date of dt1 to the date of dt2
DaysBetween(dt1, dt2) ==
    toordinal(dt2.year, dt2.month, dt2.day) - toordinal(dt1.year, dt1.month, dt1.day)

-----------------------------------------------------------------------------
(* Claims about the task table, checked under Spec and SpecTime *)

DeleteOps == {"delete_task", "bot_delete_task"}

ListOps == {"get_tasks", "bot_get_tasks"}

\* the rows the pending call returned
Listed == {last.rows[i] : i \in 1..Len(last.rows)}

\* C1: every row a call returns (get_tasks, get_task_by_id) or removes
\* (delete_task) belongs to the user the call was made for.
C1_OwnerIsolation ==
    \A r \in Listed \cup last.removed : r.user_id = last.user

\* C1's case: a user lists tasks and gets some, while the table also holds
\* another user's task.
C1_Witness ==
    /\ last.op \in ListOps
    /\ Listed # {}
    /\ \E r \in tasks : r.user_id # last.user

\* C2: delete returns True exactly when a row with that (id, owner) existed
\* and was removed by the call, and False when no row matched.
C2_DeleteReportsRemoval ==
    (last.op \in DeleteOps /\ last.db = "ok")
        => /\ last.ret = "True" <=> last.removed # {}
           /\ last.removed = {} => last.ret = "False"

\* C3: a delete whose (id, owner) matches no row (an unknown id, or the id of
\* another user's row) leaves every stored row as it was.
C3_DeleteNoMatchIsNoOp ==
    [][ ( /\ last'.op \in DeleteOps
          /\ ~\E r \in tasks : r.id = last'.id /\ r.user_id = last'.user )
          => tasks' = tasks ]_vars

\* C3's case: a delete was made with the id of another user's row, and that
\* row is still stored.
C3_Witness ==
    /\ last.op \in DeleteOps
    /\ last.db = "ok"
    /\ last.removed = {}
    /\ \E r \in tasks : r.id = last.id /\ r.user_id # last.user

\* C4: listing returns exactly the caller's tasks whose due_at is strictly
\* later than the instant of the query, in ascending order of due_at.
C4_ListUpcoming ==
    (last.op \in ListOps /\ last.db = "ok")
        => /\ Listed = {r \in tasks : /\ r.user_id = last.user
                                      /\ Before(clock, fromisoformat(r.datetime))}
           /\ \A i, j \in 1..Len(last.rows) :
                  i < j => ~Before(fromisoformat(last.rows[j].datetime),
                                   fromisoformat(last.rows[i].datetime))

-----------------------------------------------------------------------------
(* Claims about parse_datetime, checked under SpecResolve *)

\* C5: for every weekday token (abbreviation or full name, any letter case),
\* every time of the 24-hour clock and every reference instant, the parser
\* returns a date 1 to 7 days after the reference date whose weekday is the
\* named one; it is never the reference date.
C5_WeekdayNextOccurrence ==
    (call.made /\ IsWeekdayToken(call.date) /\ IsClockToken(call.time))
        => /\ call.out.ok
           /\ DaysBetween(call.now, call.out.dt) \in 1..7
           /\ weekday(call.out.dt.year, call.out.dt.month, call.out.dt.day)
                  = NamedWeekday(call.date)

\* C5's case: the token names the reference date's own weekday, and the
\* result is a week later.
C5_Witness ==
    /\ call.made
    /\ IsWeekdayToken(call.date)
    /\ NamedWeekday(call.date) = weekday(call.now.year, call.now.month, call.now.day)
    /\ call.out.ok
    /\ DaysBetween(call.now, call.out.dt) = 7

\* C6: for every D.M token the parser accepts, the resolved month and day are
\* M and D, and the year is the reference year when (M, D) >= (reference
\* month, reference day), the reference year + 1 otherwise.
C6_YearInference ==
    (call.made /\ IsDayMonthToken(call.date) /\ call.out.ok)
        => /\ call.out.dt.day = TokenDay(call.date)
           /\ call.out.dt.month = TokenMonth(call.date)
           /\ call.out.dt.year
                  = SpecYear(TokenDay(call.date), TokenMonth(call.date), call.now)

\* C6's case: a date of the reference month with an earlier day rolls to the
\* next year.
C6_Witness ==
    /\ call.made
    /\ IsDayMonthToken(call.date)
    /\ call.out.ok
    /\ TokenMonth(call.date) = call.now.month
    /\ TokenDay(call.date) < call.now.day
    /\ call.out.dt.year = call.now.year + 1

\* C7: the parser fails (InvalidFormat) whenever the time token is not a time
\* of the 24-hour clock, whenever the D.M token is not a real date of the
\* inferred year, and whenever the date token is neither a weekday name nor a
\* D.M token (an explicit year included).
C7_InvalidFormat ==
    call.made
        => /\ ~IsClockToken(call.time) => ~call.out.ok
           /\ ( /\ IsDayMonthToken(call.date)
                /\ ~ValidDate(SpecYear(TokenDay(call.date), TokenMonth(call.date),
                                       call.now),
                              TokenMonth(call.date), TokenDay(call.date)) )
                  => ~call.out.ok
           /\ (~IsWeekdayToken(call.date) /\ ~IsDayMonthToken(call.date))
                  => ~call.out.ok

\* C8: every timestamp the parser returns is strictly later than the
\* reference instant.
C8_ResultInFuture ==
    (call.made /\ call.out.ok) => Before(call.now, call.out.dt)

\* C9: two calls with the same date token and time token (the function takes
\* no other argument) have the same outcome, whatever the wall clock reads
\* at each call.
C9_SameArgumentsSameOutcome ==
    (call.made /\ prev.made /\ call.date = prev.date /\ call.time = prev.time)
        => call.out = prev.out

AddOps == {"add_command", "bot_add_command"}

\* C13: over every sequence of add and delete commands of any users, each id
\* that add_task returns is strictly greater than every id it returned
\* before, so no id is given twice, to any owner, and the id of a deleted
\* task is not given again.
C13_IdsStrictlyIncrease ==
    \A i, j \in 1..Len(created) : i < j => created[i] < created[j]

\* C13's case: a task is added after an earlier task was deleted.
C13_Witness ==
    /\ last.op \in AddOps
    /\ last.ret = "ok"
    /\ Len(created) >= 2
    /\ created[Len(created)] = last.id
    /\ \E i \in 1..(Len(created) - 1) :
           \A r \in tasks : r.id # created[i]
\* C14: when a store call is over, whether it returned or raised, the
\* connection it opened has been closed: no call leaves an open connection
\* (and with it an uncommitted transaction) behind.
C14_ConnectionReleased ==
    ~Idle => last.conn # "open"
\* C15: when a task is added and the calendar creates its event, the event
\* starts at the task's due time and ends one hour later, and the event's id
\* is the google_event_id of the task's row; when a task is deleted the
\* calendar is asked to delete the id in the deleted row, and it is not
\* asked when that row has no id or when no row matched.
C15_MirrorProtocol ==
    /\ (last.op = "add_command" /\ last.ret = "ok" /\ last.mirror = "ok")
           => \E r \in tasks, e \in events :
                  /\ r.id = last.id
                  /\ r.google_event_id = last.event
                  /\ e.id = last.event
                  /\ fromisoformat(e.start) = fromisoformat(r.datetime)
                  /\ Instant(fromisoformat(e.end))
                         = Instant(fromisoformat(e.start)) + 3600
                  /\ fromisoformat(e.end).microsecond
                         = fromisoformat(e.start).microsecond
                  /\ fromisoformat(e.end).utcoffset
                         = fromisoformat(e.start).utcoffset
    /\ (last.op = "delete_task" /\ last.db = "ok")
           => IF \E r \in last.removed : r.google_event_id # None
              THEN /\ last.mirror # "none"
                   /\ \A r \in last.removed : r.google_event_id = last.event
              ELSE last.mirror = "none"

\* C15's case: a task whose event the calendar created is deleted, and the
\* calendar deletes that event.
C15_Witness ==
    /\ last.op = "delete_task"
    /\ last.mirror = "ok"
    /\ \E r \in last.removed : r.google_event_id = last.event
    /\ \A e \in events : e.id # last.event

\* C16: when an add command is over, the event the calendar created during
\* it is the google_event_id of a row of the table, whether the command
\* succeeded or failed.
C16_NoOrphanEvent ==
    (last.op = "add_command" /\ last.mirror = "ok")
        => \E r \in tasks : r.google_event_id = last.event
\* C12: a task that add_task stored and that its owner then reads, by
\* get_task_by_id with the returned id or in the list of get_tasks, has the
\* description that was given and a due time that parses back to the one
\* that was given: the same date and time to the microsecond and the same
\* UTC offset.  get_task_by_id with the returned id finds it.
C12_RoundTrip ==
    (call.made /\ last.db = "ok" /\ last.user = call.user
               /\ last.op \in ListOps \cup {"get_task_by_id"})
        => /\ \A r \in Listed :
                  r.id = call.id => /\ r.description = call.description
                                    /\ fromisoformat(r.datetime) = call.due_at
           /\ (last.op = "get_task_by_id" /\ last.id = call.id)
                  => \E r \in Listed : r.id = call.id

\* C12's case: a task due at a time with microseconds, in a zone west of
\* UTC, is read back by its owner.
C12_Witness ==
    /\ call.made
    /\ last.op = "get_task_by_id"
    /\ last.user = call.user
    /\ last.id = call.id
    /\ call.due_at.microsecond # 0
    /\ call.due_at.utcoffset < 0
    /\ \E r \in Listed : fromisoformat(r.datetime) = call.due_at
\* the thread is inside delete_task, past its SELECT
PastSelect(t) == threads[t].pc \in {"delete", "mirror", "reply"}

\* C11: of two delete_task calls for the same task id and owner that are in
\* progress at once, at most one finds the row and its google_event_id, so
\* the calendar is asked to delete that event at most once.
C11_OneDeleteObservesRow ==
    \A t1, t2 \in Threads :
        ( /\ t1 # t2
          /\ PastSelect(t1) /\ PastSelect(t2)
          /\ threads[t1].task_id = threads[t2].task_id
          /\ threads[t1].user_id = threads[t2].user_id )
            => /\ ~(threads[t1].seen /\ threads[t2].seen)
               /\ ~(threads[t1].asked /\ threads[t2].asked)

=============================================================================
